---------------------------- MODULE Spec2Model ----------------------------
(***************************************************************************)
(* A model of languagestudies/utilities.py: the per-1000-words pipeline    *)
(* (create_qry, get_feature_data, compute_per1000_data,                    *)
(* add_total_by_group) and the FeatureMetrics display object (sort,        *)
(* _validate_columns, compact, create_display).                            *)
(*                                                                         *)
(* A pandas DataFrame is a record [columns, rows]: the set of its column   *)
(* names and the sequence of its rows, each row a function from the column *)
(* names to the cell values.  A float cell is an exact rational <<n, d>>   *)
(* in lowest terms (NaN is <<0, 0>>): the rounding error of one IEEE       *)
(* division is not modelled, the rounding to two decimals is.              *)
(***************************************************************************)
EXTENDS Integers, Sequences, FiniteSets, TLC

VARIABLES
    \* ---- FeatureMetrics object -------------------------------------------
    _df,            \* self._df, the table the object holds
    pc,             \* where the object is: "new", "idle", "compact_loop"
    index,          \* position of compact()'s iterrows() loop in _df.rows
    compacting,     \* compact()'s local flag
    c_row,          \* compact()'s accumulator row (Unbound before first use)
    c_start_book,   \* Range label of the first row of the open zero-run
    c_end_book,     \* Range label of the last row of the open zero-run
    compacted_df,   \* compact()'s output under construction
    outcome,        \* how the latest method call ended
    n_calls,        \* method calls made so far
    n_compacted,    \* compact() calls that returned
    df_in,          \* the table the latest method call was entered with
    \* ---- query / normalisation pipeline ---------------------------------
    texts,          \* get_feature_data's texts: dict as a sequence of <<name, sections>>
    features,       \* get_feature_data's features list
    qry,            \* the query create_qry built
    sizes,          \* the word-count table ('Text Sizes.csv')
    data,           \* the frame flowing through the pipeline
    data_in,        \* the frame the latest pipeline step was entered with
    fpc,            \* where the pipeline is
    ferr            \* the error the pipeline ended in ("none" when it did not)

fm_vars == <<_df, pc, index, compacting, c_row, c_start_book, c_end_book,
             compacted_df, outcome, n_calls, n_compacted, df_in>>
pl_vars == <<texts, features, qry, sizes, data, data_in, fpc, ferr>>
vars == <<fm_vars, pl_vars>>

-----------------------------------------------------------------------------
(* Bounds of the model *)

\* longest table handed to FeatureMetrics.compact()
MaxRows == 4
\* method calls made on one FeatureMetrics object
MaxCalls == 2
\* longest table handed to the FeatureMetrics constructor and to sort()
MaxSortRows == 3
\* most texts named in one request to get_feature_data
MaxTexts == 2
\* longest frame handed to compute_per1000_data and to add_total_by_group
MaxRecords == 3

-----------------------------------------------------------------------------
(* Floats as exact rationals *)

NaN == <<0, 0>>

RECURSIVE GCD(_, _)
GCD(a, b) == IF b = 0 THEN a ELSE GCD(b, a % b)

\* the float n / d for integers n >= 0, d >= 0
Frac(n, d) ==
    IF d = 0 THEN (IF n = 0 THEN NaN ELSE <<1, 0>>)
    ELSE LET g == GCD(n, d) IN <<n \div g, d \div g>>

IsNaN(f) == f = NaN

FInt(n) == <<n, 1>>

\* a / b on floats; NaN propagates
FDiv(a, b) ==
    IF IsNaN(a) \/ IsNaN(b) THEN NaN
    ELSE Frac(a[1] * b[2], a[2] * b[1])

\* a + b on floats; NaN propagates
FAdd(a, b) ==
    IF IsNaN(a) \/ IsNaN(b) THEN NaN
    ELSE Frac(a[1] * b[2] + b[1] * a[2], a[2] * b[2])

\* nearest integer to n / d, ties to even (numpy's rint)
RoundHalfEven(n, d) ==
    LET q == n \div d
        r == n % d
    IN  IF 2 * r < d THEN q
        ELSE IF 2 * r > d THEN q + 1
        ELSE IF q % 2 = 0 THEN q ELSE q + 1

\* DataFrame.round({'per1000': 2}) on one cell
Round2(f) ==
    IF f[2] = 0 THEN f
    ELSE Frac(RoundHalfEven(100 * f[1], f[2]), 100)

-----------------------------------------------------------------------------
(* Frames *)

DF(cols, rows) == [columns |-> cols, rows |-> rows]

DISPLAY_DF_COLUMNS == {"Group", "Range", "Feature", "Count", "Total Words", "per1000"}

RECURSIVE SumCol(_, _)
\* sum of an integer column over a sequence of rows
SumCol(rows, col) ==
    IF rows = <<>> THEN 0
    ELSE rows[1][col] + SumCol(Tail(rows), col)

\* a local name of compact() that no assignment has bound yet
Unbound == [unbound |-> TRUE]

-----------------------------------------------------------------------------
(* FeatureMetrics: constructor arguments *)

\* x_major_name and x_minor_name as the object was built: bars grouped by
\* Feature, one bar per Range
x_major_name == "Feature"
x_minor_name == "Range"

-----------------------------------------------------------------------------
(* FeatureMetrics.sort *)

ordered_groups == <<"LXX Rahlfs Tagged", "NA28 GNT", "Josephus Greek">>

ordered_texts ==
    <<"__ALL__", "LXX Rahlfs Tagged", "Genesis", "Exodus", "Leviticus", "Numbers",
      "Deuteronomy", "Joshua", "Judges", "Ruth", "1Samuel", "2Samuel", "1Kings",
      "2Kings", "1Chronicles", "2Chronicles", "1Esdras", "Ezra", "Nehemiah",
      "Esther", "Judith", "Tobit", "1Maccabees", "2Maccabees", "3Maccabees",
      "4Maccabees", "Psalms", "Odes", "Proverbs", "Ecclesiastes", "Song", "Job",
      "Wisdom", "Sirach", "Solomon", "Hosea", "Amos", "Micah", "Joel", "Obadiah",
      "Jonah", "Nahum", "Habakkuk", "Zephaniah", "Haggai", "Zechariah", "Malachi",
      "Isaiah", "Jeremiah", "Baruch", "Lamentations", "Letterjeremiah", "Ezekiel",
      "Daniel", "Susanna", "Bel", "NA28 GNT", "Matthew", "Mark", "Luke", "1 Acts",
      "2 Acts", "Josephus Greek", "Antiq.", "War", "Life", "Apion">>

InList(list, label) == \E k \in 1..Len(list) : list[k] = label

\* the codes of an ordered Categorical: the position of every category
Codes(list) == [label \in {list[k] : k \in 1..Len(list)} |->
                   CHOOSE k \in 1..Len(list) : list[k] = label]

\* pd.Categorical(..., ordered_groups, True)
group_cat == Codes(ordered_groups)

\* pd.Categorical(..., ordered_texts, True)
range_cat == Codes(ordered_texts)

\* astype(cat) on one label: its code; a label that is no category becomes
\* NaN, which sort_values places last
CatCode(cat, label) ==
    IF label \in DOMAIN cat THEN cat[label] ELSE Cardinality(DOMAIN cat) + 1

\* the Categorical converted back with astype(str)
CatStr(cat, label) == IF label \in DOMAIN cat THEN label ELSE "nan"

\* sort_values(by=['Group', 'Range']): the two codes, compared in this order
SortKey(r) == <<CatCode(group_cat, r["Group"]), CatCode(range_cat, r["Range"])>>

KeyLeq(a, b) == a[1] < b[1] \/ (a[1] = b[1] /\ a[2] <= b[2])

\* sort_values puts a row behind the rows whose key is smaller or equal
\* (a mutant: in front of the rows with an equal key)
GoesBehindUnstable(r, s) == KeyLeq(SortKey(s), SortKey(r)) /\ SortKey(s) # SortKey(r)

\* sort_values on several keys is a stable sort: a row is placed behind
\* every earlier row whose key is smaller or equal
GoesBehind(r, s) == KeyLeq(SortKey(s), SortKey(r))

\* r inserted into the sorted sequence done
InsertRow(done, r) ==
    LET p == Cardinality({k \in 1..Len(done) : GoesBehind(r, done[k])})
    IN  SubSeq(done, 1, p) \o <<r>> \o SubSeq(done, p + 1, Len(done))

RECURSIVE SortRowsFrom(_, _)
SortRowsFrom(done, rest) ==
    IF rest = <<>> THEN done
    ELSE SortRowsFrom(InsertRow(done, rest[1]), Tail(rest))

sort_values(rows) == SortRowsFrom(<<>>, rows)

\* the frame sort() leaves in self._df
sorted_df(df) ==
    DF(df.columns,
       [k \in 1..Len(df.rows) |->
           [sort_values(df.rows)[k] EXCEPT
               !["Group"] = CatStr(group_cat, @),
               !["Range"] = CatStr(range_cat, @)]])

\* sort() reads the Group and Range columns
sort_can_run(df) == {"Group", "Range"} \subseteq df.columns

\* FeatureMetrics.__init__ on a frame whose columns it can read
init ==
    /\ pc = "new"
    /\ x_minor_name \in _df.columns
    /\ sort_can_run(_df)
    /\ df_in' = _df
    /\ _df' = sorted_df(_df)
    /\ pc' = "idle"
    /\ outcome' = "sorted"
    /\ n_calls' = n_calls + 1
    /\ UNCHANGED <<index, compacting, c_row, c_start_book, c_end_book,
                   compacted_df, n_compacted>>
    /\ UNCHANGED pl_vars

\* FeatureMetrics.__init__ on a frame missing a column it reads: KeyError,
\* no object
init_raise ==
    /\ pc = "new"
    /\ ~(x_minor_name \in _df.columns /\ sort_can_run(_df))
    /\ df_in' = _df
    /\ pc' = "failed"
    /\ outcome' = "KeyError"
    /\ n_calls' = n_calls + 1
    /\ UNCHANGED <<_df, index, compacting, c_row, c_start_book, c_end_book,
                   compacted_df, n_compacted>>
    /\ UNCHANGED pl_vars

\* FeatureMetrics.sort called on the object
sort ==
    /\ pc = "idle"
    /\ n_calls < MaxCalls
    /\ sort_can_run(_df)
    /\ df_in' = _df
    /\ _df' = sorted_df(_df)
    /\ outcome' = "sorted"
    /\ n_calls' = n_calls + 1
    /\ UNCHANGED <<pc, index, compacting, c_row, c_start_book, c_end_book,
                   compacted_df, n_compacted>>
    /\ UNCHANGED pl_vars

-----------------------------------------------------------------------------
(* FeatureMetrics._validate_columns and FeatureMetrics.compact *)

\* TRUE when _validate_columns(df) returns, FALSE when it raises ValueError:
\* the sorted column index must equal the sorted DISPLAY_DF_COLUMNS
_validate_columns(df) == df.columns = DISPLAY_DF_COLUMNS

\* the Range of a closed zero-run (a mutant: always '<start>-<end>')
SummaryRangeAlwaysJoined(start, end) == start \o "-" \o end

\* the Range of a closed zero-run
SummaryRange(start, end) ==
    IF start = end THEN start ELSE start \o "-" \o end

\* c_row as it is appended when a zero-run is closed
ClosedRow(acc, start, end) ==
    [acc EXCEPT !["Range"] = SummaryRange(start, end),
                !["per1000"] = Frac(acc["Count"] * 1000, acc["Total Words"])]

\* c_row after a further zero row (a mutant: the row's Total Words replace
\* the accumulated ones)
AccumulateOverwrite(acc, row) ==
    [acc EXCEPT !["Count"] = @ + row["Count"],
                !["Total Words"] = row["Total Words"]]

\* c_row after a further zero row is added into it
Accumulate(acc, row) ==
    [acc EXCEPT !["Count"] = @ + row["Count"],
                !["Total Words"] = @ + row["Total Words"]]

AppendRow(df, r) == DF(df.columns, Append(df.rows, r))

\* compact(): _validate_columns raises, the ValueError leaves the method
compact_raise ==
    /\ pc = "idle"
    /\ n_calls < MaxCalls
    /\ ~_validate_columns(_df)
    /\ df_in' = _df
    /\ outcome' = "ValueError"
    /\ n_calls' = n_calls + 1
    /\ UNCHANGED <<_df, pc, index, compacting, c_row, c_start_book, c_end_book,
                   compacted_df, n_compacted>>
    /\ UNCHANGED pl_vars

\* compact(): the columns are valid, the loop is set up
compact_begin ==
    /\ pc = "idle"
    /\ n_calls < MaxCalls
    /\ _validate_columns(_df)
    /\ df_in' = _df
    /\ compacted_df' = DF(DISPLAY_DF_COLUMNS, <<>>)
    /\ compacting' = FALSE
    /\ c_row' = Unbound
    /\ c_start_book' = Unbound
    /\ c_end_book' = Unbound
    /\ index' = 1
    /\ pc' = "compact_loop"
    /\ outcome' = "running"
    /\ n_calls' = n_calls + 1
    /\ UNCHANGED <<_df, n_compacted>>
    /\ UNCHANGED pl_vars

\* loop body, compacting is True and the row's Count is 0
compact_extend_run ==
    /\ pc = "compact_loop"
    /\ index <= Len(_df.rows)
    /\ compacting = TRUE
    /\ _df.rows[index]["Count"] = 0
    /\ c_row' = Accumulate(c_row, _df.rows[index])
    /\ c_end_book' = _df.rows[index]["Range"]
    /\ index' = index + 1
    /\ UNCHANGED <<_df, pc, compacting, c_start_book, compacted_df, outcome,
                   n_calls, n_compacted, df_in>>
    /\ UNCHANGED pl_vars

\* loop body, compacting is True and the row's Count is not 0
compact_close_run ==
    /\ pc = "compact_loop"
    /\ index <= Len(_df.rows)
    /\ compacting = TRUE
    /\ _df.rows[index]["Count"] # 0
    /\ c_row' = ClosedRow(c_row, c_start_book, c_end_book)
    /\ compacted_df' = AppendRow(AppendRow(compacted_df, c_row'), _df.rows[index])
    /\ compacting' = FALSE
    /\ index' = index + 1
    /\ UNCHANGED <<_df, pc, c_start_book, c_end_book, outcome, n_calls,
                   n_compacted, df_in>>
    /\ UNCHANGED pl_vars

\* loop body, compacting is False and the row's Count is not 0
compact_pass_row ==
    /\ pc = "compact_loop"
    /\ index <= Len(_df.rows)
    /\ compacting = FALSE
    /\ _df.rows[index]["Count"] # 0
    /\ compacted_df' = AppendRow(compacted_df, _df.rows[index])
    /\ index' = index + 1
    /\ UNCHANGED <<_df, pc, compacting, c_row, c_start_book, c_end_book, outcome,
                   n_calls, n_compacted, df_in>>
    /\ UNCHANGED pl_vars

\* loop body, compacting is False and the row's Count is 0
compact_open_run ==
    /\ pc = "compact_loop"
    /\ index <= Len(_df.rows)
    /\ compacting = FALSE
    /\ _df.rows[index]["Count"] = 0
    /\ compacting' = TRUE
    /\ c_row' = _df.rows[index]
    /\ c_start_book' = _df.rows[index]["Range"]
    /\ c_end_book' = _df.rows[index]["Range"]
    /\ index' = index + 1
    /\ UNCHANGED <<_df, pc, compacted_df, outcome, n_calls, n_compacted, df_in>>
    /\ UNCHANGED pl_vars

\* the loop is over: self._df = compacted_df, whatever compacting is
compact_return ==
    /\ pc = "compact_loop"
    /\ index > Len(_df.rows)
    /\ _df' = compacted_df
    /\ pc' = "idle"
    /\ outcome' = "compacted"
    /\ n_compacted' = n_compacted + 1
    /\ UNCHANGED <<index, compacting, c_row, c_start_book, c_end_book,
                   compacted_df, n_calls, df_in>>
    /\ UNCHANGED pl_vars

compact ==
    \/ compact_raise
    \/ compact_begin
    \/ compact_extend_run
    \/ compact_close_run
    \/ compact_pass_row
    \/ compact_open_run
    \/ compact_return

-----------------------------------------------------------------------------
(* FeatureMetrics.create_display *)

\* create_display() reads self._df[x_major_name] and self._df[x_minor_name]
\* and validates nothing
display_can_run(df) == {x_major_name, x_minor_name} \subseteq df.columns

\* create_display() returns the layout of table and chart
create_display ==
    /\ pc = "idle"
    /\ n_calls < MaxCalls
    /\ display_can_run(_df)
    /\ df_in' = _df
    /\ outcome' = "display"
    /\ n_calls' = n_calls + 1
    /\ UNCHANGED <<_df, pc, index, compacting, c_row, c_start_book, c_end_book,
                   compacted_df, n_compacted>>
    /\ UNCHANGED pl_vars

\* create_display() fails on a column it reads: KeyError
create_display_raise ==
    /\ pc = "idle"
    /\ n_calls < MaxCalls
    /\ ~display_can_run(_df)
    /\ df_in' = _df
    /\ outcome' = "KeyError"
    /\ n_calls' = n_calls + 1
    /\ UNCHANGED <<_df, pc, index, compacting, c_row, c_start_book, c_end_book,
                   compacted_df, n_compacted>>
    /\ UNCHANGED pl_vars

-----------------------------------------------------------------------------
(* The FeatureMetrics object: initial states and specifications *)

\* the pipeline at rest, for the specifications of the FeatureMetrics object
PipelineAtRest ==
    /\ texts = <<>>
    /\ features = <<>>
    /\ qry = Unbound
    /\ sizes = <<>>
    /\ data = DF({}, <<>>)
    /\ data_in = DF({}, <<>>)
    /\ fpc = "off"
    /\ ferr = "none"

\* no FeatureMetrics object, for the specifications of the pipeline
NoObject ==
    /\ _df = DF({}, <<>>)
    /\ pc = "off"
    /\ index = 0
    /\ compacting = FALSE
    /\ c_row = Unbound
    /\ c_start_book = Unbound
    /\ c_end_book = Unbound
    /\ compacted_df = DF({}, <<>>)
    /\ outcome = "none"
    /\ n_calls = 0
    /\ n_compacted = 0
    /\ df_in = DF({}, <<>>)

Counts == {0, 5}
Words == {1000, 2000}

\* the row at display position k of a table of one group and one feature,
\* its Range the k-th book of the canonical order, its per1000 as
\* get_feature_data leaves it
DisplayRow(cols, k, c, w) ==
    [col \in cols |->
        CASE col = "Group" -> "LXX Rahlfs Tagged"
          [] col = "Range" -> ordered_texts[k + 2]
          [] col = "Feature" -> "kai"
          [] col = "Count" -> c
          [] col = "Total Words" -> w
          [] col = "per1000" -> Round2(Frac(c * 1000, w))
          [] OTHER -> "Moses"]

\* the column sets a constructed object can hold: the constructor reads
\* Group, Range and x_minor_name, nothing checks the others
HeldColumnSets ==
    { DISPLAY_DF_COLUMNS,
      DISPLAY_DF_COLUMNS \cup {"Author"},
      DISPLAY_DF_COLUMNS \ {"Feature"},
      DISPLAY_DF_COLUMNS \ {"per1000"} }

CountWordLists == UNION { [1..n -> Counts \X Words] : n \in 0..MaxRows }

\* a constructed object holding a table in display order
InitCompact ==
    /\ \E cols \in HeldColumnSets, cw \in CountWordLists :
          _df = DF(cols, [k \in 1..Len(cw) |-> DisplayRow(cols, k, cw[k][1], cw[k][2])])
    /\ pc = "idle"
    /\ index = 0
    /\ compacting = FALSE
    /\ c_row = Unbound
    /\ c_start_book = Unbound
    /\ c_end_book = Unbound
    /\ compacted_df = DF({}, <<>>)
    /\ outcome = "constructed"
    /\ n_calls = 0
    /\ n_compacted = 0
    /\ df_in = _df
    /\ PipelineAtRest

NextCompact ==
    \/ compact
    \/ create_display
    \/ create_display_raise

SpecCompact == InitCompact /\ [][NextCompact]_vars

SortGroups == {"LXX Rahlfs Tagged", "NA28 GNT"}
\* "Hebrews" is no entry of ordered_texts
SortRanges == {"__ALL__", "Genesis", "Hebrews"}
SortFeatures == {"kai", "de"}

SortRow(cols, g, r, f) ==
    [col \in cols |->
        CASE col = "Group" -> g
          [] col = "Range" -> r
          [] col = "Feature" -> f
          [] col = "Count" -> 5
          [] col = "Total Words" -> 1000
          [] OTHER -> <<5, 1>>]

SortInputs == UNION { [1..n -> SortGroups \X SortRanges \X SortFeatures] : n \in 0..MaxSortRows }

\* a frame in any row order, handed to the constructor
InitSort ==
    /\ \E cols \in {DISPLAY_DF_COLUMNS, DISPLAY_DF_COLUMNS \ {"Group"}}, t \in SortInputs :
          _df = DF(cols, [k \in 1..Len(t) |-> SortRow(cols, t[k][1], t[k][2], t[k][3])])
    /\ pc = "new"
    /\ index = 0
    /\ compacting = FALSE
    /\ c_row = Unbound
    /\ c_start_book = Unbound
    /\ c_end_book = Unbound
    /\ compacted_df = DF({}, <<>>)
    /\ outcome = "none"
    /\ n_calls = 0
    /\ n_compacted = 0
    /\ df_in = _df
    /\ PipelineAtRest

NextSort ==
    \/ init
    \/ init_raise
    \/ sort

SpecSort == InitSort /\ [][NextSort]_vars

-----------------------------------------------------------------------------
(* Claims about FeatureMetrics.compact, checked under SpecCompact *)

\* C1: when compact() returns, the sum of Count and the sum of Total Words
\* over the rows of the output equal the sums over the rows of the input,
\* also for an input that ends with zero-count rows.
C1_CompactionConservation ==
    outcome = "compacted" =>
        /\ SumCol(_df.rows, "Count") = SumCol(df_in.rows, "Count")
        /\ SumCol(_df.rows, "Total Words") = SumCol(df_in.rows, "Total Words")

\* first row of the zero-run that ends the rows (Len + 1 when the last row
\* is no zero row)
FinalRunStart(rows) ==
    CHOOSE j \in 1..(Len(rows) + 1) :
        /\ \A k \in j..Len(rows) : rows[k]["Count"] = 0
        /\ j > 1 => rows[j - 1]["Count"] # 0

\* C2: when the input of compact() ends with a run of zero-count rows, the
\* last row of the output is the summary row of that run: Count 0, its Range
\* the run's label if the run is one row long and '<first>-<last>' otherwise,
\* its Total Words the sum over the run.
C2_EndOfSequenceClosure ==
    (/\ outcome = "compacted"
     /\ df_in.rows # <<>>
     /\ df_in.rows[Len(df_in.rows)]["Count"] = 0)
    => LET n == Len(df_in.rows)
           j == FinalRunStart(df_in.rows)
           first == df_in.rows[j]["Range"]
           last == df_in.rows[n]["Range"]
       IN  /\ _df.rows # <<>>
           /\ _df.rows[Len(_df.rows)]["Count"] = 0
           /\ _df.rows[Len(_df.rows)]["Range"] =
                 (IF j = n THEN first ELSE first \o "-" \o last)
           /\ _df.rows[Len(_df.rows)]["Total Words"] =
                 SumCol(SubSeq(df_in.rows, j, n), "Total Words")

\* C7: compact() applied to the table a previous compact() produced returns
\* that table unchanged: same rows in the same order, with the same Range,
\* Count, Total Words and per1000.
C7_CompactionIdempotence ==
    (outcome = "compacted" /\ n_compacted >= 2) => _df = df_in

\* a second compact() has returned a table with a merged zero-run in front
\* of a non-zero row
C7_Witness ==
    /\ outcome = "compacted"
    /\ n_compacted >= 2
    /\ Len(_df.rows) >= 2
    /\ _df.rows[1]["Range"] = "Genesis-Exodus"
    /\ _df.rows[1]["Count"] = 0
    /\ _df.rows[2]["Count"] # 0

\* C10: when the held table's column set is not exactly DISPLAY_DF_COLUMNS,
\* compact() and create_display() end in the validation error (ValueError),
\* produce nothing and leave the held table unchanged.
C10_SchemaFailFast ==
    (/\ pc = "idle"
     /\ outcome \in {"compacted", "display", "ValueError", "KeyError"}
     /\ df_in.columns # DISPLAY_DF_COLUMNS)
    => (outcome = "ValueError" /\ _df = df_in)

\* rows i..j are a maximal run of zero-count rows that a non-zero row follows
ClosedRun(rows, i, j) ==
    /\ i <= j
    /\ j < Len(rows)
    /\ \A k \in i..j : rows[k]["Count"] = 0
    /\ i > 1 => rows[i - 1]["Count"] # 0
    /\ rows[j + 1]["Count"] # 0

\* the number of rows the output holds for rows 1..(i - 1) of the input, row
\* i - 1 being no zero row: the non-zero rows and one row per closed zero-run
EmittedBefore(rows, i) ==
    Cardinality({k \in 1..(i - 1) : rows[k]["Count"] # 0})
      + Cardinality({k \in 1..(i - 2) : rows[k]["Count"] = 0 /\ rows[k + 1]["Count"] # 0})

\* C11: when a run of k >= 1 consecutive zero-count rows is followed by a row
\* whose Count is not 0, compact() emits at that position exactly one summary
\* row: its Range is the run's first label if that equals the run's last
\* label and '<first>-<last>' otherwise, its Count and Total Words are the
\* sums over the k rows, its per1000 is Count x 1000 / Total Words of those
\* sums. The non-zero row follows it at once, unchanged, and the non-zero
\* rows keep the relative order of the input.
C11_RunClosedBeforeNonZeroRow ==
    outcome = "compacted" =>
        LET rows == df_in.rows
            out == _df.rows
            NonZero(r) == r["Count"] # 0
        IN  /\ SelectSeq(out, NonZero) = SelectSeq(rows, NonZero)
            /\ \A i \in 1..Len(rows), j \in 1..Len(rows) :
                  ClosedRun(rows, i, j) =>
                      LET p == EmittedBefore(rows, i)
                          first == rows[i]["Range"]
                          last == rows[j]["Range"]
                          cnt == SumCol(SubSeq(rows, i, j), "Count")
                          wrd == SumCol(SubSeq(rows, i, j), "Total Words")
                      IN  /\ Len(out) >= p + 2
                          /\ p >= 1 => out[p]["Count"] # 0
                          /\ out[p + 1]["Range"] =
                                (IF first = last THEN first ELSE first \o "-" \o last)
                          /\ out[p + 1]["Count"] = cnt
                          /\ out[p + 1]["Total Words"] = wrd
                          /\ out[p + 1]["per1000"][2] # 0
                          /\ out[p + 1]["per1000"][1] * wrd
                                = cnt * 1000 * out[p + 1]["per1000"][2]
                          /\ out[p + 2] = rows[j + 1]

\* compact() has returned for a table of a non-zero row, a run of two zero
\* rows and a non-zero row: the run is one row between the two others
C11_Witness ==
    /\ outcome = "compacted"
    /\ n_compacted = 1
    /\ Len(df_in.rows) = 4
    /\ df_in.rows[1]["Count"] = 5
    /\ ClosedRun(df_in.rows, 2, 3)
    /\ df_in.rows[2]["Total Words"] = 1000
    /\ df_in.rows[3]["Total Words"] = 2000
    /\ Len(_df.rows) = 3
    /\ _df.rows[1] = df_in.rows[1]
    /\ _df.rows[2]["Range"] = df_in.rows[2]["Range"] \o "-" \o df_in.rows[3]["Range"]
    /\ _df.rows[2]["Count"] = 0
    /\ _df.rows[2]["Total Words"] = 3000
    /\ _df.rows[2]["per1000"] = <<0, 1>>
    /\ _df.rows[3] = df_in.rows[4]

-----------------------------------------------------------------------------
(* Claims about FeatureMetrics.sort, checked under SpecSort *)

Canonical(df) ==
    /\ sort_can_run(df)
    /\ \A k \in 1..Len(df.rows) :
          /\ InList(ordered_groups, df.rows[k]["Group"])
          /\ InList(ordered_texts, df.rows[k]["Range"])

Position(list, label) == CHOOSE k \in 1..Len(list) : list[k] = label

RowsWith(rows, g, r) == SelectSeq(rows, LAMBDA x : x["Group"] = g /\ x["Range"] = r)

\* C9: for a table whose Group and Range labels are all canonical, sort()
\* leaves a permutation of the rows in which the pair (position of Group,
\* position of Range) never decreases from a row to the next, the rows of
\* equal (Group, Range) keep their order, and a second sort() changes nothing.
C9_CanonicalSort ==
    (outcome = "sorted" /\ Canonical(df_in)) =>
        /\ _df.columns = df_in.columns
        /\ Len(_df.rows) = Len(df_in.rows)
        /\ \A g \in SortGroups, r \in SortRanges :
              RowsWith(_df.rows, g, r) = RowsWith(df_in.rows, g, r)
        /\ \A k \in 1..(Len(_df.rows) - 1) :
              LET a == _df.rows[k]
                  b == _df.rows[k + 1]
                  ga == Position(ordered_groups, a["Group"])
                  gb == Position(ordered_groups, b["Group"])
                  ra == Position(ordered_texts, a["Range"])
                  rb == Position(ordered_texts, b["Range"])
              IN  ga < gb \/ (ga = gb /\ ra <= rb)
        /\ n_calls >= 2 => _df = df_in

\* the constructor's sort() has reordered a canonical table in which two
\* rows of equal (Group, Range) differ in Feature
C9_Witness ==
    /\ outcome = "sorted"
    /\ n_calls = 1
    /\ Canonical(df_in)
    /\ _df.rows # df_in.rows
    /\ \E j, k \in 1..Len(_df.rows) :
          /\ j < k
          /\ _df.rows[j]["Group"] = _df.rows[k]["Group"]
          /\ _df.rows[j]["Range"] = _df.rows[k]["Range"]
          /\ _df.rows[j]["Feature"] # _df.rows[k]["Feature"]

-----------------------------------------------------------------------------
(* Names.  A text name is a sequence of characters, because create_qry      *)
(* pastes its characters between two quote characters; section and feature *)
(* names reach the query through Python's list formatting, which escapes   *)
(* them, and stay strings.                                                 *)

Gen == <<"G", "e", "n">>
Exo == <<"E", "x", "o">>
\* a name with an apostrophe in it
OBr == <<"O", "'", "B">>
\* a name no table holds
Tob == <<"T", "o", "b">>

\* the names in Python's string order, the order groupby sorts its keys in
SortedTexts == <<Exo, Gen, OBr, Tob>>
SortedSections == <<"__ALL__", "ch1", "ch2", "ch3", "ch9">>
SortedFeatures == <<"de", "kai", "men", "zzz">>

Elems(seq) == {seq[k] : k \in 1..Len(seq)}

RECURSIVE Concat(_)
\* the sequences of a sequence, joined
Concat(seqs) == IF seqs = <<>> THEN <<>> ELSE seqs[1] \o Concat(Tail(seqs))

-----------------------------------------------------------------------------
(* The input tables *)

DataTexts == <<Exo, Gen, OBr>>
DataSections == <<"ch1", "ch2", "ch3">>
DataFeatures == <<"de", "kai", "men">>

\* 'Text Linguistics Greek Features Data.csv' as get_connective_data reads
\* it: one record for every text, section and feature of the table, and a
\* second record for the keys of the first text and section
ConnectiveRecord(t, s, f, c) ==
    [col \in {"Text", "Section", "Feature", "Count"} |->
        CASE col = "Text" -> t
          [] col = "Section" -> s
          [] col = "Feature" -> f
          [] OTHER -> c]

ConnectiveData ==
    DF({"Text", "Section", "Feature", "Count"},
       [k \in 1..27 |->
           ConnectiveRecord(DataTexts[((k - 1) \div 9) + 1],
                            DataSections[(((k - 1) \div 3) % 3) + 1],
                            DataFeatures[((k - 1) % 3) + 1],
                            (k % 4) * 2)]
       \o [k \in 1..3 |-> ConnectiveRecord(Exo, "ch1", DataFeatures[k], 3)])

get_connective_data == ConnectiveData

SizeRecord(t, s, w) ==
    [col \in {"Text", "Section", "Total Words"} |->
        CASE col = "Text" -> t
          [] col = "Section" -> s
          [] OTHER -> w]

\* 'Text Sizes.csv': per text one __ALL__ row and one row per section
FullSizes ==
    Concat([k \in 1..3 |->
        << SizeRecord(DataTexts[k], "__ALL__", 6000 * k),
           SizeRecord(DataTexts[k], "ch1", 1000 * k),
           SizeRecord(DataTexts[k], "ch2", 2000 * k),
           SizeRecord(DataTexts[k], "ch3", 3000 * k) >>])

\* 'Text Sizes.csv' without the row of section ch2 of the second text
PartialSizes ==
    SelectSeq(FullSizes, LAMBDA r : ~(r["Text"] = Gen /\ r["Section"] = "ch2"))

\* get_section_total_sizes(): the rows whose Section is not __ALL__
get_section_total_sizes(size_data) ==
    SelectSeq(size_data, LAMBDA r : r["Section"] # "__ALL__")

-----------------------------------------------------------------------------
(* create_qry and DataFrame.query *)

QuoteChar == "'"

\* 'Text == \'{}\''.format(t): the characters of t between two quotes
TextLiteral(t) == <<QuoteChar>> \o t \o <<QuoteChar>>

\* one fragment of the query: Text == '<t>' for an empty section list,
\* (Text == '<t>' and Section in [<sections>]) otherwise
QryFrag(entry) ==
    [ text_literal |-> TextLiteral(entry[1]),
      restricted |-> entry[2] # <<>>,
      sections |-> entry[2] ]

\* create_qry(texts, connectives):
\* 'Feature in <connectives> and (<frag> or <frag> ...)'
create_qry(txts, connectives) ==
    [ feature_list |-> connectives,
      frags |-> [k \in 1..Len(txts) |-> QryFrag(txts[k])] ]

\* where the string literal beginning at lit[1] ends: at the next quote
LiteralEnd(lit) == CHOOSE k \in 2..Len(lit) :
                       /\ lit[k] = QuoteChar
                       /\ \A j \in 2..(k - 1) : lit[j] # QuoteChar

\* the literal is one string token: its closing quote is its last character
WellFormed(lit) == LiteralEnd(lit) = Len(lit)

LiteralValue(lit) == SubSeq(lit, 2, Len(lit) - 1)

\* DataFrame.query(qry) raises: the parenthesis holds no fragment, or the
\* characters after a literal's closing quote are no expression
query_raises(q) ==
    \/ q.frags = <<>>
    \/ \E k \in 1..Len(q.frags) : ~WellFormed(q.frags[k].text_literal)

\* the row satisfies the expression of a query that parses
query_selects(q, r) ==
    /\ r["Feature"] \in Elems(q.feature_list)
    /\ \E k \in 1..Len(q.frags) :
          /\ r["Text"] = LiteralValue(q.frags[k].text_literal)
          /\ q.frags[k].restricted => r["Section"] \in Elems(q.frags[k].sections)

-----------------------------------------------------------------------------
(* compute_per1000_data *)

\* every (Text, Section, Feature) key in the order groupby sorts keys in
Keys3 ==
    Concat([a \in 1..Len(SortedTexts) |->
        Concat([b \in 1..Len(SortedSections) |->
            [c \in 1..Len(SortedFeatures) |->
                <<SortedTexts[a], SortedSections[b], SortedFeatures[c]>>]])])

\* every (Text, Feature) key in the order groupby sorts keys in
Keys2 ==
    Concat([a \in 1..Len(SortedTexts) |->
        [c \in 1..Len(SortedFeatures) |-> <<SortedTexts[a], SortedFeatures[c]>>]])

Key3(r) == <<r["Text"], r["Section"], r["Feature"]>>
Key2(r) == <<r["Text"], r["Feature"]>>

\* groupby(['Text', 'Section', 'Feature']).sum() and reset_index on the
\* columns Text, Section, Feature, Count: one row per key, the Counts summed
GroupBySection(rows) ==
    LET present == SelectSeq(Keys3, LAMBDA key : \E k \in 1..Len(rows) : Key3(rows[k]) = key)
    IN  [k \in 1..Len(present) |->
            [col \in {"Text", "Section", "Feature", "Count"} |->
                CASE col = "Text" -> present[k][1]
                  [] col = "Section" -> present[k][2]
                  [] col = "Feature" -> present[k][3]
                  [] OTHER -> SumCol(SelectSeq(rows, LAMBDA r : Key3(r) = present[k]), "Count")]]

\* groupby(['Text', 'Feature']).sum() and reset_index on the columns Text,
\* Feature, Count
GroupByText(rows) ==
    LET present == SelectSeq(Keys2, LAMBDA key : \E k \in 1..Len(rows) : Key2(rows[k]) = key)
    IN  [k \in 1..Len(present) |->
            [col \in {"Text", "Feature", "Count"} |->
                CASE col = "Text" -> present[k][1]
                  [] col = "Feature" -> present[k][2]
                  [] OTHER -> SumCol(SelectSeq(rows, LAMBDA r : Key2(r) = present[k]), "Count")]]

\* the row l followed by the cells more
Extend(l, more) == [col \in (DOMAIN l) \cup (DOMAIN more) |->
                       IF col \in DOMAIN l THEN l[col] ELSE more[col]]

\* conn.join(sizes.set_index(['Text', 'Section']), on=['Text', 'Section']):
\* a left join, one row per matching row of sizes, and one row with a NaN
\* Total Words for a row of conn that nothing matches
JoinOnTextSection(conn, section_sizes) ==
    Concat([k \in 1..Len(conn) |->
        LET l == conn[k]
            m == SelectSeq(section_sizes,
                           LAMBDA r : r["Text"] = l["Text"] /\ r["Section"] = l["Section"])
        IN  IF m = <<>> THEN << Extend(l, [x \in {"Total Words"} |-> NaN]) >>
            ELSE [j \in 1..Len(m) |->
                     Extend(l, [x \in {"Total Words"} |-> FInt(m[j]["Total Words"])])]])

\* conn.join(sizes.set_index(['Text']), on=['Text']): a left join that
\* brings the columns Section and Total Words of every section row of the text
JoinOnText(conn, section_sizes) ==
    Concat([k \in 1..Len(conn) |->
        LET l == conn[k]
            m == SelectSeq(section_sizes, LAMBDA r : r["Text"] = l["Text"])
        IN  IF m = <<>>
            THEN << Extend(l, [x \in {"Section", "Total Words"} |->
                                  IF x = "Section" THEN "NaN" ELSE NaN]) >>
            ELSE [j \in 1..Len(m) |->
                     Extend(l, [x \in {"Section", "Total Words"} |->
                                  IF x = "Section" THEN m[j]["Section"]
                                  ELSE FInt(m[j]["Total Words"])])]])

\* Count * 1000.0 / 'Total Words' of one row
per1000(r) == FDiv(FInt(r["Count"] * 1000), r["Total Words"])

WithPer1000(rows) ==
    [k \in 1..Len(rows) |-> Extend([x \in {"per1000"} |-> per1000(rows[k])], rows[k])]

\* compute_per1000_data(df) with the word-count table size_data
compute_per1000_data(df, size_data) ==
    IF "Section" \in df.columns /\ "Text" \in df.columns
    THEN DF({"Text", "Section", "Feature", "Count", "Total Words", "per1000"},
            WithPer1000(JoinOnTextSection(GroupBySection(df.rows),
                                          get_section_total_sizes(size_data))))
    ELSE IF "Text" \in df.columns
    THEN DF({"Text", "Feature", "Count", "Section", "Total Words", "per1000"},
            WithPer1000(JoinOnText(GroupByText(df.rows),
                                   get_section_total_sizes(size_data))))
    ELSE DF(df.columns \cup {"per1000"}, WithPer1000(df.rows))

\* data.round({'per1000': 2})
round_per1000(df) ==
    DF(df.columns, [k \in 1..Len(df.rows) |-> [df.rows[k] EXCEPT !["per1000"] = Round2(@)]])

-----------------------------------------------------------------------------
(* add_total_by_group *)

RECURSIVE SumFloatCol(_, _)
\* sum of a float column, NaN cells skipped
SumFloatCol(rows, col) ==
    IF rows = <<>> THEN FInt(0)
    ELSE IF IsNaN(rows[1][col]) THEN SumFloatCol(Tail(rows), col)
    ELSE FAdd(rows[1][col], SumFloatCol(Tail(rows), col))

\* aggs: one row per (Text, Feature) with Count and Total Words summed,
\* per1000 from the two sums and rounded, Section set to __ALL__
TotalsByGroup(rows) ==
    LET present == SelectSeq(Keys2, LAMBDA key : \E k \in 1..Len(rows) : Key2(rows[k]) = key)
    IN  [k \in 1..Len(present) |->
            LET grp == SelectSeq(rows, LAMBDA r : Key2(r) = present[k])
                cnt == SumCol(grp, "Count")
                wrd == SumFloatCol(grp, "Total Words")
            IN  [col \in {"Text", "Feature", "Count", "Total Words", "per1000", "Section"} |->
                    CASE col = "Text" -> present[k][1]
                      [] col = "Feature" -> present[k][2]
                      [] col = "Count" -> cnt
                      [] col = "Total Words" -> wrd
                      [] col = "per1000" -> Round2(FDiv(FInt(cnt * 1000), wrd))
                      [] OTHER -> "__ALL__"]]

\* the rows all given the columns cols, NaN where a row has no cell
Reindex(rows, cols) ==
    [k \in 1..Len(rows) |->
        [col \in cols |-> IF col \in DOMAIN rows[k] THEN rows[k][col] ELSE NaN]]

\* a mutant of AppendFrames: the totals replace the detail rows
ReplaceByTotals(df, aggs) ==
    DF(df.columns \cup aggs.columns, Reindex(aggs.rows, df.columns \cup aggs.columns))

\* data.append(aggs, sort=False): the rows of data, then the rows of aggs
AppendFrames(df, aggs) ==
    DF(df.columns \cup aggs.columns,
       Reindex(df.rows, df.columns \cup aggs.columns)
       \o Reindex(aggs.rows, df.columns \cup aggs.columns))

add_total_by_group(df) ==
    AppendFrames(df,
                 DF({"Text", "Feature", "Count", "Total Words", "per1000", "Section"},
                    TotalsByGroup(df.rows)))

-----------------------------------------------------------------------------
(* get_feature_data, step by step *)

\* qry = create_qry(texts, features)
gfd_create_qry ==
    /\ fpc = "called"
    /\ qry' = create_qry(texts, features)
    /\ fpc' = "qry_built"
    /\ UNCHANGED <<texts, features, sizes, data, data_in, ferr>>
    /\ UNCHANGED fm_vars

\* get_connective_data().query(qry) returns the selected rows
gfd_query ==
    /\ fpc = "qry_built"
    /\ ~query_raises(qry)
    /\ data_in' = get_connective_data
    /\ data' = DF(get_connective_data.columns,
                  SelectSeq(get_connective_data.rows, LAMBDA r : query_selects(qry, r)))
    /\ fpc' = "queried"
    /\ UNCHANGED <<texts, features, qry, sizes, ferr>>
    /\ UNCHANGED fm_vars

\* get_connective_data().query(qry) raises, and so does get_feature_data
gfd_query_raise ==
    /\ fpc = "qry_built"
    /\ query_raises(qry)
    /\ data_in' = get_connective_data
    /\ ferr' = "QueryError"
    /\ fpc' = "raised"
    /\ UNCHANGED <<texts, features, qry, sizes, data>>
    /\ UNCHANGED fm_vars

\* data = compute_per1000_data(data)
gfd_compute_per1000 ==
    /\ fpc = "queried"
    /\ data_in' = data
    /\ data' = compute_per1000_data(data, sizes)
    /\ fpc' = "normalised"
    /\ UNCHANGED <<texts, features, qry, sizes, ferr>>
    /\ UNCHANGED fm_vars

\* data = data.round({'per1000': 2}); return data
gfd_round ==
    /\ fpc = "normalised"
    /\ data_in' = data
    /\ data' = round_per1000(data)
    /\ fpc' = "returned"
    /\ UNCHANGED <<texts, features, qry, sizes, ferr>>
    /\ UNCHANGED fm_vars

RequestTexts == {Gen, Exo, OBr, Tob}
RequestSections == { <<>>, <<"ch1">>, <<"ch1", "ch2">>, <<"ch9">> }
RequestFeatures == { <<>>, <<"kai">>, <<"kai", "de">>, <<"zzz">> }

\* the dicts of at most MaxTexts keys, each a sequence of <<name, sections>>
\* in insertion order
TextDicts ==
    UNION { { d \in [1..n -> RequestTexts \X RequestSections] :
                \A j, k \in 1..n : j # k => d[j][1] # d[k][1] } : n \in 0..MaxTexts }

SizeTables == {FullSizes, PartialSizes}

\* get_feature_data(texts, features) has been called
InitQuery ==
    /\ texts \in TextDicts
    /\ features \in RequestFeatures
    /\ sizes \in SizeTables
    /\ qry = Unbound
    /\ data = DF({}, <<>>)
    /\ data_in = DF({}, <<>>)
    /\ fpc = "called"
    /\ ferr = "none"
    /\ NoObject

NextQuery ==
    \/ gfd_create_qry
    \/ gfd_query
    \/ gfd_query_raise
    \/ gfd_compute_per1000
    \/ gfd_round

SpecQuery == InitQuery /\ [][NextQuery]_vars

-----------------------------------------------------------------------------
(* compute_per1000_data called on a selection of occurrence records *)

call_compute_per1000_data ==
    /\ fpc = "compute_called"
    /\ data_in' = data
    /\ data' = compute_per1000_data(data, sizes)
    /\ fpc' = "computed"
    /\ UNCHANGED <<texts, features, qry, sizes, ferr>>
    /\ UNCHANGED fm_vars

\* occurrence records: two of them share the key (Gen, ch1, kai)
NormRecords ==
    { ConnectiveRecord(Gen, "ch1", "kai", 3),
      ConnectiveRecord(Gen, "ch1", "kai", 4),
      ConnectiveRecord(Gen, "ch2", "kai", 0),
      ConnectiveRecord(Gen, "ch1", "de", 2),
      ConnectiveRecord(Exo, "ch1", "kai", 5),
      ConnectiveRecord(Exo, "ch2", "de", 1) }

\* rows of a frame grouped by the caller: Feature, Count and Total Words
TotalledRecords ==
    { [Feature |-> "kai", Count |-> 3] @@ ("Total Words" :> FInt(1000)),
      [Feature |-> "de", Count |-> 0] @@ ("Total Words" :> FInt(2000)) }

Project(r, cols) == [col \in cols |-> r[col]]

NormInputs ==
    UNION { { DF(cols, [k \in 1..n |-> Project(t[k], cols)]) :
                t \in [1..n -> NormRecords],
                cols \in { {"Text", "Section", "Feature", "Count"},
                           {"Text", "Feature", "Count"} } }
            \cup
            { DF({"Feature", "Count", "Total Words"}, t) : t \in [1..n -> TotalledRecords] }
          : n \in 0..MaxRecords }

InitNorm ==
    /\ data \in NormInputs
    /\ sizes = FullSizes
    /\ texts = <<>>
    /\ features = <<>>
    /\ qry = Unbound
    /\ data_in = DF({}, <<>>)
    /\ fpc = "compute_called"
    /\ ferr = "none"
    /\ NoObject

NextNorm == call_compute_per1000_data

SpecNorm == InitNorm /\ [][NextNorm]_vars

-----------------------------------------------------------------------------
(* add_total_by_group called on section-level result rows *)

call_add_total_by_group ==
    /\ fpc = "totals_called"
    /\ data_in' = data
    /\ data' = add_total_by_group(data)
    /\ fpc' = "aggregated"
    /\ UNCHANGED <<texts, features, qry, sizes, ferr>>
    /\ UNCHANGED fm_vars

\* a row as get_feature_data returns it: Total Words from FullSizes,
\* per1000 rounded
ResultRow(t, s, f, c) ==
    LET w == SelectSeq(FullSizes, LAMBDA r : r["Text"] = t /\ r["Section"] = s)[1]["Total Words"]
    IN  [col \in {"Text", "Section", "Feature", "Count", "Total Words", "per1000"} |->
            CASE col = "Text" -> t
              [] col = "Section" -> s
              [] col = "Feature" -> f
              [] col = "Count" -> c
              [] col = "Total Words" -> FInt(w)
              [] OTHER -> Round2(Frac(c * 1000, w))]

ResultRows ==
    { ResultRow(t, s, fc[1], fc[2]) :
        t \in {Gen, Exo}, s \in {"ch1", "ch2"},
        fc \in { <<"kai", 1>>, <<"de", 5>> } }

AggInputs ==
    UNION { { DF({"Text", "Section", "Feature", "Count", "Total Words", "per1000"}, t) :
                t \in [1..n -> ResultRows] } : n \in 0..MaxRecords }

InitAgg ==
    /\ data \in AggInputs
    /\ sizes = FullSizes
    /\ texts = <<>>
    /\ features = <<>>
    /\ qry = Unbound
    /\ data_in = DF({}, <<>>)
    /\ fpc = "totals_called"
    /\ ferr = "none"
    /\ NoObject

NextAgg == call_add_total_by_group

SpecAgg == InitAgg /\ [][NextAgg]_vars

-----------------------------------------------------------------------------
(* Claims about get_feature_data, checked under SpecQuery *)

\* the record is one the request asks for: its Feature is requested, and
\* its Text is a requested text whose section list is empty or holds its
\* Section
Requested(r) ==
    /\ \E k \in 1..Len(features) : features[k] = r["Feature"]
    /\ \E k \in 1..Len(texts) :
          /\ texts[k][1] = r["Text"]
          /\ texts[k][2] = <<>> \/ \E j \in 1..Len(texts[k][2]) : texts[k][2][j] = r["Section"]

\* C3: the query of get_feature_data selects an occurrence record if and
\* only if the record is requested: nothing unrequested is selected and
\* nothing requested is left out.
C3_QueryPredicate ==
    fpc \in {"queried", "raised"} =>
        \A k \in 1..Len(get_connective_data.rows) :
            LET r == get_connective_data.rows[k]
            IN  (fpc = "queried" /\ \E j \in 1..Len(data.rows) : data.rows[j] = r)
                    <=> Requested(r)

\* the selection has a (Text, Section) key with no section row in the
\* word-count table
HasUnjoinableKey(df) ==
    /\ {"Text", "Section"} \subseteq df.columns
    /\ \E k \in 1..Len(df.rows) :
          ~\E j \in 1..Len(sizes) :
              /\ sizes[j]["Section"] # "__ALL__"
              /\ sizes[j]["Text"] = df.rows[k]["Text"]
              /\ sizes[j]["Section"] = df.rows[k]["Section"]

\* C6: when a selected record has a (Text, Section) key without an entry in
\* the word-count table, normalisation ends in a lookup error and returns no
\* rows.
C6_UnjoinableKeyRaises ==
    (fpc \in {"computed", "normalised", "returned"} /\ HasUnjoinableKey(data_in))
    => (ferr = "LookupError" /\ data.rows = <<>>)

\* C8: a request that no occurrence record matches (unknown names, an empty
\* feature list, an empty texts mapping) ends without an error and returns
\* an empty result.
C8_EmptySelectionNoError ==
    (/\ fpc \in {"raised", "returned"}
     /\ \A k \in 1..Len(get_connective_data.rows) : ~Requested(get_connective_data.rows[k]))
    => (fpc = "returned" /\ ferr = "none" /\ data.rows = <<>>)

-----------------------------------------------------------------------------
(* Claim about compute_per1000_data, checked under SpecNorm *)

\* C5: compute_per1000_data returns exactly one row per grouping key,
\* (Text, Section, Feature) with a Section column and (Text, Feature) without,
\* whose Count is the sum of the Counts of the records of the key, whose
\* Total Words is the one total of the key (of the section, or of the whole
\* text), and per1000 x Total Words = Count x 1000.
C5_Normalization ==
    (fpc = "computed" /\ "Text" \in data_in.columns) =>
        LET bysec == "Section" \in data_in.columns
            GroupKey(r) == IF bysec THEN Key3(r) ELSE Key2(r)
            keys == {GroupKey(data_in.rows[k]) : k \in 1..Len(data_in.rows)}
        IN  /\ Len(data.rows) = Cardinality(keys)
            /\ \A key \in keys :
                  \E k \in 1..Len(data.rows) :
                      LET row == data.rows[k]
                          cnt == SumCol(SelectSeq(data_in.rows,
                                                  LAMBDA r : GroupKey(r) = key), "Count")
                      IN  /\ GroupKey(row) = key
                          /\ row["Count"] = cnt
                          /\ \E j \in 1..Len(sizes) :
                                /\ sizes[j]["Text"] = row["Text"]
                                /\ sizes[j]["Section"] =
                                      (IF bysec THEN row["Section"] ELSE "__ALL__")
                                /\ row["Total Words"] = <<sizes[j]["Total Words"], 1>>
                          /\ row["per1000"][2] # 0
                          /\ row["per1000"][1] * row["Total Words"][1]
                                = cnt * 1000 * row["per1000"][2] * row["Total Words"][2]

-----------------------------------------------------------------------------
(* Claim about add_total_by_group, checked under SpecAgg *)

RECURSIVE SumWords(_)
\* sum of the Total Words of rows whose totals are whole numbers
SumWords(rows) ==
    IF rows = <<>> THEN 0 ELSE rows[1]["Total Words"][1] + SumWords(Tail(rows))

\* C4: add_total_by_group returns the detail rows unchanged and, behind
\* them, exactly one row per (Text, Feature) pair, with Section __ALL__,
\* Count and Total Words the sums over the pair's detail rows, and per1000
\* the quotient Count x 1000 / Total Words of the two sums to two decimals.
C4_AggregationConservation ==
    fpc = "aggregated" =>
        LET n == Len(data_in.rows)
            pairs == {Key2(data_in.rows[k]) : k \in 1..n}
        IN  /\ Len(data.rows) = n + Cardinality(pairs)
            /\ SubSeq(data.rows, 1, n) = data_in.rows
            /\ \A pair \in pairs : \E k \in (n + 1)..Len(data.rows) : Key2(data.rows[k]) = pair
            /\ \A k \in (n + 1)..Len(data.rows) :
                  LET row == data.rows[k]
                      grp == SelectSeq(data_in.rows, LAMBDA r : Key2(r) = Key2(row))
                      cnt == SumCol(grp, "Count")
                      wrd == SumWords(grp)
                      p == row["per1000"]
                      diff == p[1] * (100 \div p[2]) * wrd - 100000 * cnt
                  IN  /\ row["Section"] = "__ALL__"
                      /\ row["Count"] = cnt
                      /\ row["Total Words"] = <<wrd, 1>>
                      /\ p[2] # 0 /\ 100 % p[2] = 0
                      /\ 2 * diff <= wrd /\ 2 * diff >= 0 - wrd

\* two sections of one text with different sizes and rates have been
\* totalled: Exo ch1 (5 in 1000 words) and Exo ch2 (5 in 2000 words) give a
\* row of 10 in 3000 words, 3.33 per 1000, where the mean of the rates is 3.75
C4_Witness ==
    /\ fpc = "aggregated"
    /\ Len(data_in.rows) = 2
    /\ data_in.rows[1]["Section"] # data_in.rows[2]["Section"]
    /\ Len(data.rows) = 3
    /\ data.rows[3]["Text"] = Exo
    /\ data.rows[3]["Count"] = 10
    /\ data.rows[3]["Total Words"] = <<3000, 1>>
    /\ data.rows[3]["per1000"] = <<333, 100>>

=============================================================================
